---- MODULE Spec2Model ----
(***************************************************************************)
(* Model of the WhatsApp bot service (src/server.py): the /whatsapp        *)
(* request pipeline, the user store and message log it uses, the agent     *)
(* client's failure mapping and the process start-up that binds the        *)
(* database handles.                                                       *)
(*                                                                         *)
(* Python values are modelled as strings.  None and a JSON number are the  *)
(* two non-string values the pipeline can meet (in a translation payload); *)
(* they are the distinguished values PyNone and PyInt.  An f-string is the *)
(* concatenation of its parts.  A timestamp is a reading of the logical    *)
(* clock; a missing timestamp (None) is NoTime.                            *)
(***************************************************************************)
EXTENDS Integers, Sequences, FiniteSets, TLC

(***************************************************************************)
(* Bounds of the model.                                                    *)
(***************************************************************************)
MaxRequests == 2
Slots == {"r1", "r2"}
Phones == {"p1", "p2"}
PhonesSeq == {"p1"}
ChatIds == {"c1"}

(***************************************************************************)
(* Python values.                                                          *)
(***************************************************************************)
PyNone == "<None>"
PyInt == "<int 5>"
NoTime == -1

IsStr(v) == v \notin {PyNone, PyInt}

\* Truthiness of a value: None and the empty string are falsy.
Falsy(v) == v \in {PyNone, ""}

\* str(v)
Str(v) == IF v = PyNone THEN "None" ELSE IF v = PyInt THEN "5" ELSE v

(***************************************************************************)
(* Inbound texts.  Each stands for a text of the script its code points    *)
(* belong to; CodePoints gives ord(char) for each of its characters.       *)
(***************************************************************************)
MsgLatin == "Hello"
MsgTelugu == "<telugu: nama>"
MsgDevanagari == "<devanagari: nama>"
Messages == {MsgLatin, MsgTelugu, MsgDevanagari}
Languages == {"", "en", "hi"}
MessagesBasic == {MsgLatin}
LanguagesBasic == {"en", "hi"}

CodePoints(text) ==
  CASE text = MsgLatin -> <<72, 101, 108, 108, 111>>
    [] text = MsgTelugu -> <<3112, 3118>>
    [] text = MsgDevanagari -> <<2344, 2350>>
    [] OTHER -> <<>>

\* detect_language: counts of code points in the Telugu and Devanagari blocks.
RECURSIVE CountIn(_, _, _)
CountIn(cps, lo, hi) ==
  IF cps = <<>> THEN 0
  ELSE (IF lo <= Head(cps) /\ Head(cps) <= hi THEN 1 ELSE 0) + CountIn(Tail(cps), lo, hi)

detect_language_strict(cps) ==
  LET telugu_chars == CountIn(cps, 3072, 3199)
      hindi_chars == CountIn(cps, 2304, 2431)
  IN IF telugu_chars > 0 /\ telugu_chars > hindi_chars THEN "te"
     ELSE IF hindi_chars > 0 THEN "hi"
     ELSE "en"
detect_language(cps) ==
  LET telugu_chars == CountIn(cps, 3072, 3199)
      hindi_chars == CountIn(cps, 2304, 2431)
  IN IF telugu_chars > 0 /\ telugu_chars >= hindi_chars THEN "te"
     ELSE IF hindi_chars > 0 THEN "hi"
     ELSE "en"

\* Step 1 of the handler: the caller's language unless empty or "en".
DetectAlways(language, message) == detect_language(CodePoints(message))
DetermineLanguage(language, message) ==
  IF Falsy(language) \/ language = "en"
  THEN detect_language(CodePoints(message))
  ELSE language

(***************************************************************************)
(* The translation service, as the handler sees it.  An outcome of one     *)
(* POST /translate is: a 200 response whose JSON body is an object with a  *)
(* string translated_text ("ok"), a non-200 response, a timeout, a network *)
(* error, a 200 response whose body is not JSON, is JSON but no object,    *)
(* lacks translated_text, or carries translated_text = null or a number.   *)
(***************************************************************************)
TranslationFailures == {"non200", "timeout", "network"}
TranslationMalformed == {"not_json", "not_object", "missing", "null", "number"}
TranslationOutcomes == {"ok"} \cup TranslationFailures \cup TranslationMalformed
TranslationOutcomesBasic == {"ok"}

\* What the remote service answers for text and target language.
ServiceTranslation(text, target) == "[" \o target \o "] " \o text

\* The value the handler holds after one translation call: the variable is
\* preset to the input text, and assigned only on a 200 response whose body
\* parses to an object; .get's default is the input text.
Translated(text, target, o) ==
  CASE o = "ok" -> ServiceTranslation(text, target)
    [] o = "null" -> PyNone
    [] o = "number" -> PyInt
    [] OTHER -> text

(***************************************************************************)
(* The agent service, as send_to_agent sees it: the POST times out, cannot *)
(* connect, fails with another request error or an unexpected error, or    *)
(* returns a response with a status code and a body.                       *)
(***************************************************************************)
AgentAnswer == "Apply neem oil spray in the evening."
AgentStatusCodes == {302, 404, 405, 422, 500}
AgentBodies == {"answer", "no_field", "not_json", "not_object"}
AgentTransport == {"timeout", "connect", "request_error", "unexpected"}
AgentOutcomes ==
  [kind : AgentTransport, status : {0}, body : {"none"}]
  \cup [kind : {"response"}, status : {200}, body : AgentBodies]
  \cup [kind : {"response"}, status : AgentStatusCodes, body : {"not_json"}]
AgentOutcomesBasic ==
  {[kind |-> "response", status |-> 200, body |-> "answer"],
   [kind |-> "timeout", status |-> 0, body |-> "none"]}

SorryTimeout == "Sorry, our service is taking longer than expected. Please try again in a few moments."
SorryUnavailable == "Sorry, our AI assistant is currently unavailable. We're working to restore the service. Please try again later."
SorryFormat == "Sorry, there was an issue with your request format. Please try again."
SorryTechnical == "Sorry, our AI assistant is experiencing technical difficulties. Please try again in a few minutes."
SorryUnable == "Sorry, we're unable to process your request right now. Please try again later."
SorryOffline == "Sorry, our AI assistant is currently offline. We're working to restore the service. Please check back soon."
SorryConnecting == "Sorry, we're having trouble connecting to our AI assistant. Please try again in a few moments."
SorryInvalid == "Sorry, we received an invalid response from our AI assistant. Please try again."
SorryWrong == "Sorry, something went wrong. Please try again later."
NoResponse == "No response from agent"

\* The except HTTPStatusError branch.
StatusErrorReply(status_code) ==
  IF status_code = 405 THEN SorryUnavailable
  ELSE IF status_code = 422 THEN SorryFormat
  ELSE IF status_code >= 500 THEN SorryTechnical
  ELSE IF status_code >= 400 THEN SorryUnable
  ELSE "Agent error: " \o ToString(status_code)

\* The value send_to_agent returns once its try block is entered:
\* raise_for_status raises for every status outside 200..299.
AgentReply(o) ==
  CASE o.kind = "timeout" -> SorryTimeout
    [] o.kind = "connect" -> SorryOffline
    [] o.kind = "request_error" -> SorryConnecting
    [] o.kind = "unexpected" -> SorryWrong
    [] OTHER ->
       IF o.status \notin 200..299 THEN StatusErrorReply(o.status)
       ELSE CASE o.body = "answer" -> AgentAnswer
              [] o.body = "no_field" -> NoResponse
              [] o.body = "not_json" -> SorryInvalid
              [] OTHER -> SorryWrong

\* send_to_agent slices message[:100] before its try block: a TypeError
\* for a message that is None or a number escapes to the caller.
AgentRaises(message) == ~IsStr(message)

(***************************************************************************)
(* The database, as the store operations see it: each awaited call         *)
(* completes ("ok") or raises.                                             *)
(***************************************************************************)
DbOutcomes == {"ok", "raise"}
DbOutcomesBasic == {"ok"}
DbErrorText == "ServerSelectionTimeoutError: no replica set members available"
NotInitializedText == "500: Database not initialized"
ValidationErrorText == "1 validation errors: {'type': 'string_type', 'loc': ('response', 'message')}"
InternalTexts == {DbErrorText, NotInitializedText, ValidationErrorText}

(***************************************************************************)
(* Response bodies.                                                        *)
(***************************************************************************)
GenericApology == "Sorry, something went wrong processing your request. Please try again later."

\* Step 6 of the handler.
response_data(rq, final, lang, t) ==
  [chatId |-> rq.chatId, phoneNumber |-> rq.phoneNumber, message |-> final,
   language |-> lang, timestamp |-> t, status |-> "success"]

\* The dict the handler's "except Exception" branch returns.
error_response(rq, t) ==
  [chatId |-> rq.chatId, phoneNumber |-> rq.phoneNumber,
   message |-> GenericApology, timestamp |-> t, status |-> "error"]

http_exception_handler(detail, t) ==
  [error |-> detail, status_code |-> 500, timestamp |-> t]

general_exception_handler(text, t) ==
  [error |-> "Internal server error", detail |-> text, timestamp |-> t]

\* What reaches the channel when an exception handler has returned body.
\* Both handlers return a plain dict, not a response object: a framework
\* that serializes it delivers body, one that can only send response
\* objects fails on it and the server answers with its own bare 500.
ServerError == [status_code |-> 500, text |-> "Internal Server Error"]
HandlerResponses(body) == {body, ServerError}

\* query_database's "except Exception": the HTTPException it raises.
DatabaseErrorDetail(e) == "Database error: " \o e

\* response_model=WhatsAppResponse: a returned dict is validated against
\* the model and serialized with the model's defaults for absent fields.
WhatsAppResponse(body) ==
  IF "language" \in DOMAIN body THEN body
  ELSE [chatId |-> body.chatId, phoneNumber |-> body.phoneNumber,
        message |-> body.message, language |-> "en",
        timestamp |-> body.timestamp, status |-> body.status]

(***************************************************************************)
(* State.                                                                  *)
(***************************************************************************)
VARIABLES
  started,              \* lifespan has run its start-up part
  client, db, users_collection, messages_collection,   \* module globals
  users,                \* documents of db.users, in insertion order
  messages,             \* documents of db.messages, in insertion order
  clock,                \* last reading of datetime.utcnow()
  served,               \* requests received so far
  pc,                   \* per request: the await it is suspended at
  req,                  \* per request: the WhatsAppRequest
  detected_lang, user_data, english_message, history_context,
  agent_response_en, final_message,       \* per request: handler locals
  agent_payload,        \* per request: the payload POSTed to the agent
  response,             \* per request: the body delivered to the channel
  outcome,              \* per request: how each awaited call ended
  trace,                \* per request: the pipeline steps invoked, in order
  snapshot,             \* per request: the stores when it was received
  update_now,           \* per request: the utcnow() read for "$set lastMessage"
  call                  \* the last direct call of a function, with its result

globals == <<started, client, db, users_collection, messages_collection>>
stores == <<users, messages>>
locals == <<req, detected_lang, user_data, english_message, history_context,
            agent_response_en, final_message, agent_payload, update_now>>
vars == <<globals, stores, clock, served, pc, locals, response, outcome, trace, snapshot, call>>

NoRequest == [chatId |-> "", phoneNumber |-> "", message |-> "", language |-> ""]
NoUser == [phoneNumber |-> "", createdAt |-> NoTime, messageCount |-> 0, lastMessage |-> NoTime]
NoPayload == [chatId |-> "", phone_number |-> "", message |-> "", language |-> ""]
NotDelivered == [status |-> "none"]
NoAgentOutcome == [kind |-> "none", status |-> 0, body |-> "none"]
NoCall == [op |-> "none"]
NoOutcome ==
  [ensure |-> "none", trans_in |-> "none", history |-> "none", save_user |-> "none",
   agent |-> NoAgentOutcome, update |-> "none", trans_out |-> "none",
   save_assistant |-> "none"]

Init ==
  /\ started = FALSE
  /\ client = PyNone /\ db = PyNone
  /\ users_collection = PyNone /\ messages_collection = PyNone
  /\ users = <<>> /\ messages = <<>>
  /\ clock = 0 /\ served = 0
  /\ pc = [r \in Slots |-> "idle"]
  /\ req = [r \in Slots |-> NoRequest]
  /\ detected_lang = [r \in Slots |-> ""]
  /\ user_data = [r \in Slots |-> NoUser]
  /\ english_message = [r \in Slots |-> ""]
  /\ history_context = [r \in Slots |-> ""]
  /\ agent_response_en = [r \in Slots |-> ""]
  /\ final_message = [r \in Slots |-> ""]
  /\ agent_payload = [r \in Slots |-> NoPayload]
  /\ response = [r \in Slots |-> NotDelivered]
  /\ outcome = [r \in Slots |-> NoOutcome]
  /\ trace = [r \in Slots |-> <<>>]
  /\ snapshot = [r \in Slots |-> [users |-> <<>>, messages |-> <<>>]]
  /\ update_now = [r \in Slots |-> NoTime]
  /\ call = NoCall

(***************************************************************************)
(* lifespan, start-up part.  "global client, db, users_collection" names   *)
(* three of the four handles: the assignment to messages_collection binds  *)
(* a local of lifespan and the module global keeps its value.              *)
(***************************************************************************)
Lifespan ==
  /\ ~started
  /\ started' = TRUE
  /\ client' = "AsyncIOMotorClient"
  /\ \E ping \in DbOutcomes :
       IF ping = "ok"
       THEN /\ db' = "agriculture"
            /\ users_collection' = "agriculture.users"
       ELSE UNCHANGED <<db, users_collection>>
  /\ UNCHANGED <<messages_collection, stores, clock, served, pc, locals,
                 response, outcome, trace, snapshot, call>>

(***************************************************************************)
(* Store operations.                                                       *)
(***************************************************************************)
HistoryLimit == 5

Min(a, b) == IF a <= b THEN a ELSE b

RECURSIVE Reverse(_)
Reverse(s) == IF s = <<>> THEN <<>> ELSE Append(Reverse(Tail(s)), Head(s))

\* Insert m into s, which is ordered by timestamp newest first; among equal
\* timestamps the document inserted later comes first.
RECURSIVE InsertDesc(_, _)
InsertDesc(m, s) ==
  IF s = <<>> THEN <<m>>
  ELSE IF m.timestamp >= Head(s).timestamp THEN <<m>> \o s
  ELSE <<Head(s)>> \o InsertDesc(m, Tail(s))

\* .sort("timestamp", -1)
RECURSIVE SortDesc(_)
SortDesc(s) == IF s = <<>> THEN <<>> ELSE InsertDesc(s[Len(s)], SortDesc(SubSeq(s, 1, Len(s) - 1)))

RECURSIVE FormatHistory(_)
FormatHistory(history) ==
  IF history = <<>> THEN ""
  ELSE (IF Head(history).role = "user" THEN "User" ELSE "AgriGPT")
       \o ": " \o Head(history).content_en \o "\n" \o FormatHistory(Tail(history))

\* get_recent_history, given the documents of db.messages and how the
\* awaited find ends.
get_recent_history_unfiltered(phoneNumber, limit, o) ==
  IF messages_collection = PyNone THEN ""
  ELSE IF o = "raise" THEN ""
  ELSE LET found == SortDesc(messages)
           history == SubSeq(found, 1, Min(limit, Len(found)))
       IN IF history = <<>> THEN ""
          ELSE "\n--- Recent Conversation History (for context) ---\n"
               \o FormatHistory(Reverse(history))
               \o "--- End of History ---\n\n"
get_recent_history_newest_first(phoneNumber, limit, o) ==
  IF messages_collection = PyNone THEN ""
  ELSE IF o = "raise" THEN ""
  ELSE LET found == SortDesc(SelectSeq(messages, LAMBDA m : m.phoneNumber = phoneNumber))
           history == SubSeq(found, 1, Min(limit, Len(found)))
       IN IF history = <<>> THEN ""
          ELSE "\n--- Recent Conversation History (for context) ---\n"
               \o FormatHistory(history)
               \o "--- End of History ---\n\n"
get_recent_history(phoneNumber, limit, o) ==
  IF messages_collection = PyNone THEN ""
  ELSE IF o = "raise" THEN ""
  ELSE LET found == SortDesc(SelectSeq(messages, LAMBDA m : m.phoneNumber = phoneNumber))
           history == SubSeq(found, 1, Min(limit, Len(found)))
       IN IF history = <<>> THEN ""
          ELSE "\n--- Recent Conversation History (for context) ---\n"
               \o FormatHistory(Reverse(history))
               \o "--- End of History ---\n\n"

\* save_chat_message: the new documents of db.messages and the clock.
save_chat_message(phoneNumber, role, content, chatId, content_en, o) ==
  IF messages_collection = PyNone THEN UNCHANGED <<messages, clock>>
  ELSE /\ clock' = clock + 1
       /\ messages' =
            IF o = "raise" THEN messages
            ELSE Append(messages,
                   [phoneNumber |-> phoneNumber, chatId |-> chatId, role |-> role,
                    content |-> content,
                    content_en |-> IF Falsy(content_en) THEN content ELSE content_en,
                    timestamp |-> clock + 1])

\* How a message-log operation ended: it does nothing without a handle.
LogOutcome(o) == IF messages_collection = PyNone THEN "skipped" ELSE o

\* datetime.isoformat()
isoformat(t) == "T" \o ToString(t)

\* The user returned by query_database: the document without its storage
\* identifier, createdAt as an ISO string.
ReturnedUserWithId(doc) ==
  [f \in DOMAIN doc |-> IF f = "createdAt" THEN isoformat(doc[f]) ELSE doc[f]]
ReturnedUser(doc) ==
  [f \in DOMAIN doc \ {"_id"} |-> IF f = "createdAt" THEN isoformat(doc[f]) ELSE doc[f]]

\* The document insert_one stores (and new_user becomes): new_user with
\* the identifier the store assigns.
Inserted(new_user) ==
  [f \in DOMAIN new_user \cup {"_id"} |->
     IF f = "_id" THEN Len(users) + 1 ELSE new_user[f]]

\* find_one({"phoneNumber": phoneNumber}): the index of the first match, or 0.
FindUser(phoneNumber) ==
  IF \E i \in 1..Len(users) : users[i].phoneNumber = phoneNumber
  THEN CHOOSE i \in 1..Len(users) :
         /\ users[i].phoneNumber = phoneNumber
         /\ \A j \in 1..(i - 1) : users[j].phoneNumber # phoneNumber
  ELSE 0

\* update_one with $inc messageCount and $set lastMessage on the first match.
UpdatedUsersTwice(phoneNumber, now) ==
  LET i == FindUser(phoneNumber)
  IN IF i = 0 THEN users
     ELSE [users EXCEPT ![i] = [@ EXCEPT !.messageCount = @ + 2, !.lastMessage = now]]
UpdatedUsers(phoneNumber, now) ==
  LET i == FindUser(phoneNumber)
  IN IF i = 0 THEN users
     ELSE [users EXCEPT ![i] = [@ EXCEPT !.messageCount = @ + 1, !.lastMessage = now]]

(***************************************************************************)
(* The /whatsapp handler, one action per step of its pipeline.             *)
(***************************************************************************)
Step(r, label) == trace' = [trace EXCEPT ![r] = Append(@, label)]

\* The step after a successful query_database.
AfterEnsure(lang) == IF lang # "en" THEN "translate_in" ELSE "history"

EnsureSucceeded(r) ==
  /\ pc' = [pc EXCEPT ![r] = AfterEnsure(detected_lang[r])]
  /\ english_message' = [english_message EXCEPT ![r] = req[r].message]
  /\ UNCHANGED response

\* query_database raised: its "except Exception" wraps the error in an
\* HTTPException, the handler's "except HTTPException" re-raises it and
\* http_exception_handler answers.
EnsureFailedSwallowed(r, lang, e, now) ==
  /\ pc' = [pc EXCEPT ![r] = AfterEnsure(lang)]
  /\ response' = [response EXCEPT ![r] = NotDelivered]
EnsureFailed(r, lang, e, now) ==
  /\ pc' = [pc EXCEPT ![r] = "done"]
  /\ \E delivered \in HandlerResponses(http_exception_handler(DatabaseErrorDetail(e), now)) :
       response' = [response EXCEPT ![r] = delivered]

\* The request arrives; the handler runs to its first await.
Receive(r, concurrent, phones, texts, langs) ==
  /\ started
  /\ pc[r] \in {"idle", "done"}
  /\ served < MaxRequests
  /\ concurrent \/ \A s \in Slots : pc[s] \in {"idle", "done"}
  /\ \E chatId \in ChatIds, phoneNumber \in phones, message \in texts, language \in langs :
       /\ req' = [req EXCEPT ![r] = [chatId |-> chatId, phoneNumber |-> phoneNumber,
                                     message |-> message, language |-> language]]
       /\ detected_lang' = [detected_lang EXCEPT ![r] = DetermineLanguage(language, message)]
  /\ served' = served + 1
  /\ user_data' = [user_data EXCEPT ![r] = NoUser]
  /\ history_context' = [history_context EXCEPT ![r] = ""]
  /\ agent_response_en' = [agent_response_en EXCEPT ![r] = ""]
  /\ final_message' = [final_message EXCEPT ![r] = ""]
  /\ agent_payload' = [agent_payload EXCEPT ![r] = NoPayload]
  /\ snapshot' = [snapshot EXCEPT ![r] = [users |-> users, messages |-> messages]]
  /\ trace' = [trace EXCEPT ![r] = <<"ensure">>]
  /\ english_message' = [english_message EXCEPT ![r] = ""]
  /\ update_now' = [update_now EXCEPT ![r] = NoTime]
  /\ IF users_collection = PyNone
     THEN /\ EnsureFailed(r, detected_lang'[r], NotInitializedText, clock + 1)
          /\ clock' = clock + 1
          /\ outcome' = [outcome EXCEPT ![r] = [NoOutcome EXCEPT !.ensure = "failed"]]
     ELSE /\ pc' = [pc EXCEPT ![r] = "find_one"]
          /\ response' = [response EXCEPT ![r] = NotDelivered]
          /\ clock' = clock
          /\ outcome' = [outcome EXCEPT ![r] = NoOutcome]
  /\ UNCHANGED <<globals, stores, call>>

\* await users_collection.find_one(...)
FindOne(r, outs) ==
  /\ pc[r] = "find_one"
  /\ \E o \in outs :
       LET i == FindUser(req[r].phoneNumber)
       IN CASE o = "raise" ->
                 /\ EnsureFailed(r, detected_lang[r], DbErrorText, clock + 1)
                 /\ clock' = clock + 1
                 /\ outcome' = [outcome EXCEPT ![r].ensure = "failed"]
                 /\ UNCHANGED <<user_data, english_message>>
            [] o = "ok" /\ i # 0 ->
                 /\ EnsureSucceeded(r)
                 /\ user_data' = [user_data EXCEPT ![r] = ReturnedUser(users[i])]
                 /\ outcome' = [outcome EXCEPT ![r].ensure = "found"]
                 /\ UNCHANGED clock
            [] OTHER ->
                 /\ pc' = [pc EXCEPT ![r] = "insert_one"]
                 /\ user_data' = [user_data EXCEPT ![r] =
                      [phoneNumber |-> req[r].phoneNumber, createdAt |-> clock + 1,
                       messageCount |-> 0, lastMessage |-> NoTime]]
                 /\ clock' = clock + 1
                 /\ UNCHANGED <<outcome, response, english_message>>
  /\ UNCHANGED <<globals, stores, served, req, detected_lang, history_context,
                 agent_response_en, final_message, agent_payload, update_now, trace, snapshot, call>>

\* await users_collection.insert_one(new_user)
InsertOne(r, outs) ==
  /\ pc[r] = "insert_one"
  /\ \E o \in outs :
       IF o = "raise"
       THEN /\ EnsureFailed(r, detected_lang[r], DbErrorText, clock + 1)
            /\ clock' = clock + 1
            /\ outcome' = [outcome EXCEPT ![r].ensure = "failed"]
            /\ UNCHANGED <<users, user_data, english_message>>
       ELSE /\ EnsureSucceeded(r)
            /\ users' = Append(users, Inserted(user_data[r]))
            /\ user_data' = [user_data EXCEPT ![r] = ReturnedUser(Inserted(user_data[r]))]
            /\ outcome' = [outcome EXCEPT ![r].ensure = "created"]
            /\ UNCHANGED clock
  /\ UNCHANGED <<globals, messages, served, req, detected_lang, history_context,
                 agent_response_en, final_message, agent_payload, update_now, trace, snapshot, call>>

\* Step 2.2: POST /translate towards English.
TranslateIn(r, outs) ==
  /\ pc[r] = "translate_in"
  /\ \E o \in outs :
       /\ english_message' = [english_message EXCEPT ![r] = Translated(req[r].message, "en", o)]
       /\ outcome' = [outcome EXCEPT ![r].trans_in = o]
  /\ Step(r, "translate_in")
  /\ pc' = [pc EXCEPT ![r] = "history"]
  /\ UNCHANGED <<globals, stores, clock, served, req, detected_lang, user_data,
                 history_context, agent_response_en, final_message, agent_payload, update_now,
                 response, snapshot, call>>

\* Step 2.5: get_recent_history(req.phoneNumber)
GetHistory(r, outs) ==
  /\ pc[r] = "history"
  /\ \E o \in outs :
       /\ history_context' = [history_context EXCEPT ![r] =
            get_recent_history(req[r].phoneNumber, HistoryLimit, o)]
       /\ outcome' = [outcome EXCEPT ![r].history = LogOutcome(o)]
  /\ Step(r, "history")
  /\ pc' = [pc EXCEPT ![r] = "save_user"]
  /\ UNCHANGED <<globals, stores, clock, served, req, detected_lang, user_data,
                 english_message, agent_response_en, final_message, agent_payload, update_now,
                 response, snapshot, call>>

\* save_chat_message(req.phoneNumber, "user", req.message, req.chatId, english_message)
SaveUser(r, outs) ==
  /\ pc[r] = "save_user"
  /\ \E o \in outs :
       /\ save_chat_message(req[r].phoneNumber, "user", req[r].message, req[r].chatId,
                            english_message[r], o)
       /\ outcome' = [outcome EXCEPT ![r].save_user = LogOutcome(o)]
  /\ Step(r, "append_user")
  /\ pc' = [pc EXCEPT ![r] = "agent"]
  /\ UNCHANGED <<globals, users, served, locals, response, snapshot, call>>

\* Step 3: the prompt.
contextual_query_always(history, english) ==
  history \o "Farmer's current question: " \o Str(english)
contextual_query(history, english) ==
  IF ~Falsy(history)
  THEN history \o "Farmer's current question: " \o Str(english)
  ELSE english

\* Step 3: send_to_agent.  A TypeError raised before its try block reaches
\* the handler's "except Exception", which returns the error dict.  When the
\* call returns, the handler runs on to the next await, the update_one of
\* update_user_message_count, whose argument reads the clock.
SendToAgent(r, outs) ==
  /\ pc[r] = "agent"
  /\ LET query == contextual_query(history_context[r], english_message[r])
     IN IF AgentRaises(query)
        THEN /\ response' = [response EXCEPT ![r] =
                  WhatsAppResponse(error_response(req[r], clock + 1))]
             /\ clock' = clock + 1
             /\ pc' = [pc EXCEPT ![r] = "done"]
             /\ UNCHANGED <<agent_response_en, agent_payload, outcome, update_now>>
        ELSE /\ \E o \in outs :
                  /\ agent_response_en' = [agent_response_en EXCEPT ![r] = AgentReply(o)]
                  /\ outcome' = [outcome EXCEPT ![r].agent = o]
             /\ agent_payload' = [agent_payload EXCEPT ![r] =
                  [chatId |-> req[r].chatId, phone_number |-> user_data[r].phoneNumber,
                   message |-> query, language |-> detected_lang[r]]]
             /\ pc' = [pc EXCEPT ![r] = "update"]
             /\ IF users_collection = PyNone
                THEN UNCHANGED <<clock, update_now>>
                ELSE /\ clock' = clock + 1
                     /\ update_now' = [update_now EXCEPT ![r] = clock + 1]
             /\ UNCHANGED response
  /\ Step(r, "agent")
  /\ UNCHANGED <<globals, stores, served, req, detected_lang, user_data, english_message,
                 history_context, final_message, snapshot, call>>

\* The step after update_user_message_count.
AfterUpdateRevisit(lang) == IF lang # "en" THEN "translate_in" ELSE "save_assistant"
AfterUpdate(lang) == IF lang # "en" THEN "translate_out" ELSE "save_assistant"

\* Step 4: the update_one of update_user_message_count is applied or
\* fails; then final_message = ai_msg_en.
UpdateCount(r, outs) ==
  /\ pc[r] = "update"
  /\ \E o \in outs :
       IF users_collection = PyNone
       THEN /\ UNCHANGED users
            /\ outcome' = [outcome EXCEPT ![r].update = "skipped"]
       ELSE /\ users' = IF o = "raise" THEN users
                        ELSE UpdatedUsers(req[r].phoneNumber, update_now[r])
            /\ outcome' = [outcome EXCEPT ![r].update = o]
  /\ final_message' = [final_message EXCEPT ![r] = Str(agent_response_en[r])]
  /\ Step(r, "record_activity")
  /\ pc' = [pc EXCEPT ![r] = AfterUpdate(detected_lang[r])]
  /\ UNCHANGED <<globals, messages, clock, served, req, detected_lang, user_data,
                 english_message, history_context, agent_response_en, agent_payload,
                 update_now, response, snapshot, call>>

\* Step 5: POST /translate back to the detected language.
TranslateOut(r, outs) ==
  /\ pc[r] = "translate_out"
  /\ \E o \in outs :
       /\ final_message' = [final_message EXCEPT ![r] =
            Translated(Str(agent_response_en[r]), detected_lang[r], o)]
       /\ outcome' = [outcome EXCEPT ![r].trans_out = o]
  /\ Step(r, "translate_out")
  /\ pc' = [pc EXCEPT ![r] = "save_assistant"]
  /\ UNCHANGED <<globals, stores, clock, served, req, detected_lang, user_data,
                 english_message, history_context, agent_response_en, agent_payload, update_now,
                 response, snapshot, call>>

\* save_chat_message(req.phoneNumber, "assistant", final_message, req.chatId, ai_msg_en)
SaveAssistant(r, outs) ==
  /\ pc[r] = "save_assistant"
  /\ \E o \in outs :
       /\ save_chat_message(req[r].phoneNumber, "assistant", final_message[r], req[r].chatId,
                            Str(agent_response_en[r]), o)
       /\ outcome' = [outcome EXCEPT ![r].save_assistant = LogOutcome(o)]
  /\ Step(r, "append_assistant")
  /\ pc' = [pc EXCEPT ![r] = "respond"]
  /\ UNCHANGED <<globals, users, served, locals, response, snapshot, call>>

\* Whether WhatsAppResponse accepts a value for its field message: str.  A
\* number is coerced to a string or rejected, depending on the validation
\* library's version; None is rejected.
MessageAccepted(message, lax) == IsStr(message) \/ (message = PyInt /\ lax)

\* Step 6: the handler returns response_data; the framework validates it
\* against the response model outside the handler's try block, and a
\* validation error reaches general_exception_handler.
Respond(r) ==
  /\ pc[r] = "respond"
  /\ \E lax \in BOOLEAN :
       LET body == response_data(req[r], final_message[r], detected_lang[r], clock + 1)
       IN IF MessageAccepted(body.message, lax)
          THEN /\ response' = [response EXCEPT ![r] =
                    WhatsAppResponse([body EXCEPT !.message = Str(@)])]
               /\ clock' = clock + 1
          ELSE /\ \E delivered \in HandlerResponses(
                                    general_exception_handler(ValidationErrorText, clock + 2)) :
                    response' = [response EXCEPT ![r] = delivered]
               /\ clock' = clock + 2
  /\ Step(r, "respond")
  /\ pc' = [pc EXCEPT ![r] = "done"]
  /\ UNCHANGED <<globals, stores, served, locals, outcome, snapshot, call>>

(***************************************************************************)
(* Specifications.  Spec serves one request at a time, against every       *)
(* outcome of every call.  SpecConc serves requests concurrently (one      *)
(* task per request, suspended at its awaits), against the basic outcomes. *)
(***************************************************************************)
Next ==
  \/ Lifespan
  \/ \E r \in {"r1"} :
       \/ Receive(r, FALSE, PhonesSeq, Messages, Languages)
       \/ FindOne(r, DbOutcomes)
       \/ InsertOne(r, DbOutcomes)
       \/ TranslateIn(r, TranslationOutcomes)
       \/ GetHistory(r, DbOutcomes)
       \/ SaveUser(r, DbOutcomes)
       \/ SendToAgent(r, AgentOutcomes)
       \/ UpdateCount(r, DbOutcomes)
       \/ TranslateOut(r, TranslationOutcomes)
       \/ SaveAssistant(r, DbOutcomes)
       \/ Respond(r)

Spec == Init /\ [][Next]_vars

NextConc ==
  \/ Lifespan
  \/ \E r \in Slots :
       \/ Receive(r, TRUE, Phones, MessagesBasic, LanguagesBasic)
       \/ FindOne(r, DbOutcomesBasic)
       \/ InsertOne(r, DbOutcomesBasic)
       \/ TranslateIn(r, TranslationOutcomesBasic)
       \/ GetHistory(r, DbOutcomesBasic)
       \/ SaveUser(r, DbOutcomesBasic)
       \/ SendToAgent(r, AgentOutcomesBasic)
       \/ UpdateCount(r, DbOutcomes)
       \/ TranslateOut(r, TranslationOutcomesBasic)
       \/ SaveAssistant(r, DbOutcomesBasic)
       \/ Respond(r)

SpecConc == Init /\ [][NextConc]_vars

(***************************************************************************)
(* SpecLog calls the functions of the Message Log directly, as a caller of *)
(* the module can: with the module global messages_collection unbound or   *)
(* bound to a collection, it appends turns, fetches the recent history of  *)
(* a phone number and assembles the prompt of step 3 from it.  call holds  *)
(* the arguments and the result of the last call.                          *)
(***************************************************************************)
MaxLog == 6

Limits == {2, HistoryLimit}

\* The turns appended: a user turn with its translation, an assistant turn
\* without an English text.
Turns ==
  {[role |-> "user", content |-> MsgTelugu, content_en |-> ServiceTranslation(MsgTelugu, "en")],
   [role |-> "assistant", content |-> AgentAnswer, content_en |-> PyNone]}

Questions == {MsgLatin}

InitLog ==
  /\ started = FALSE
  /\ client = PyNone /\ db = PyNone /\ users_collection = PyNone
  /\ messages_collection \in {PyNone, "agriculture.messages"}
  /\ users = <<>> /\ messages = <<>>
  /\ clock = 0 /\ served = 0
  /\ pc = [r \in Slots |-> "idle"]
  /\ req = [r \in Slots |-> NoRequest]
  /\ detected_lang = [r \in Slots |-> ""]
  /\ user_data = [r \in Slots |-> NoUser]
  /\ english_message = [r \in Slots |-> ""]
  /\ history_context = [r \in Slots |-> ""]
  /\ agent_response_en = [r \in Slots |-> ""]
  /\ final_message = [r \in Slots |-> ""]
  /\ agent_payload = [r \in Slots |-> NoPayload]
  /\ response = [r \in Slots |-> NotDelivered]
  /\ outcome = [r \in Slots |-> NoOutcome]
  /\ trace = [r \in Slots |-> <<>>]
  /\ snapshot = [r \in Slots |-> [users |-> <<>>, messages |-> <<>>]]
  /\ update_now = [r \in Slots |-> NoTime]
  /\ call = NoCall

\* What a direct call of a Message Log function leaves alone.
pipeline == <<globals, users, served, pc, locals, response, outcome, trace, snapshot>>

\* await save_chat_message(phoneNumber, role, content, chatId, content_en)
LogAppendIn(chatIds, bound) ==
  /\ clock < bound
  /\ \E phoneNumber \in Phones, chatId \in chatIds, turn \in Turns, o \in DbOutcomesBasic :
       /\ save_chat_message(phoneNumber, turn.role, turn.content, chatId, turn.content_en, o)
       /\ call' = [op |-> "save_chat_message", phoneNumber |-> phoneNumber,
                   role |-> turn.role, content |-> turn.content,
                   content_en |-> turn.content_en, o |-> LogOutcome(o)]
  /\ UNCHANGED pipeline

LogAppend == LogAppendIn(ChatIds, MaxLog)

\* await get_recent_history(phoneNumber, limit)
LogHistory ==
  /\ \E phoneNumber \in Phones, limit \in Limits, o \in DbOutcomes :
       call' = [op |-> "get_recent_history", phoneNumber |-> phoneNumber, limit |-> limit,
                o |-> LogOutcome(o), result |-> get_recent_history(phoneNumber, limit, o)]
  /\ UNCHANGED <<pipeline, messages, clock>>

\* Steps 2.5 and 3 of the handler: the history of the phone number, then
\* the prompt for the English message.
LogPrompt ==
  /\ \E phoneNumber \in Phones, english \in Questions, o \in DbOutcomes :
       LET history == get_recent_history(phoneNumber, HistoryLimit, o)
       IN call' = [op |-> "contextual_query", phoneNumber |-> phoneNumber,
                   english_message |-> english, o |-> LogOutcome(o),
                   history_context |-> history,
                   result |-> contextual_query(history, english)]
  /\ UNCHANGED <<pipeline, messages, clock>>

NextLog == LogAppend \/ LogHistory \/ LogPrompt

SpecLog == InitLog /\ [][NextLog]_vars

(***************************************************************************)
(* SpecChats is SpecLog over a shorter Message Log whose turns come from   *)
(* two chat sessions of each phone number.                                 *)
(***************************************************************************)
MaxChatLog == 3

LogChatIds == {"c1", "c2"}

LogAppendChats == LogAppendIn(LogChatIds, MaxChatLog)

NextChats == LogAppendChats \/ LogHistory \/ LogPrompt

SpecChats == InitLog /\ [][NextChats]_vars

(***************************************************************************)
(* SpecDetect calls detect_language directly on every text of at most      *)
(* MaxTextLen characters drawn from code points at and around the ends of  *)
(* the Telugu and Devanagari blocks.                                       *)
(***************************************************************************)
MaxTextLen == 3

\* "A"; U+08FF, U+0900, U+097F, U+0980; U+0BFF, U+0C00, U+0C7F, U+0C80.
CodePointSamples == {65, 2303, 2304, 2431, 2432, 3071, 3072, 3199, 3200}

Texts == UNION {[1..n -> CodePointSamples] : n \in 0..MaxTextLen}

InitDetect ==
  /\ started = FALSE
  /\ client = PyNone /\ db = PyNone
  /\ users_collection = PyNone /\ messages_collection = PyNone
  /\ users = <<>> /\ messages = <<>>
  /\ clock = 0 /\ served = 0
  /\ pc = [r \in Slots |-> "idle"]
  /\ req = [r \in Slots |-> NoRequest]
  /\ detected_lang = [r \in Slots |-> ""]
  /\ user_data = [r \in Slots |-> NoUser]
  /\ english_message = [r \in Slots |-> ""]
  /\ history_context = [r \in Slots |-> ""]
  /\ agent_response_en = [r \in Slots |-> ""]
  /\ final_message = [r \in Slots |-> ""]
  /\ agent_payload = [r \in Slots |-> NoPayload]
  /\ response = [r \in Slots |-> NotDelivered]
  /\ outcome = [r \in Slots |-> NoOutcome]
  /\ trace = [r \in Slots |-> <<>>]
  /\ snapshot = [r \in Slots |-> [users |-> <<>>, messages |-> <<>>]]
  /\ update_now = [r \in Slots |-> NoTime]
  /\ \E text \in Texts : call = [op |-> "text", text |-> text]

\* detect_language(text)
Detect ==
  /\ call.op = "text"
  /\ call' = [op |-> "detect_language", text |-> call.text,
              result |-> detect_language(call.text)]
  /\ UNCHANGED <<pipeline, messages, clock>>

NextDetect == Detect

SpecDetect == InitDetect /\ [][NextDetect]_vars

(***************************************************************************)
(* Vocabulary of the properties.                                           *)
(***************************************************************************)
Range(s) == {s[i] : i \in 1..Len(s)}
Finished(r) == pc[r] = "done"
IsSuccess(body) == "status" \in DOMAIN body /\ body.status = "success"
EnsureOk(r) == outcome[r].ensure \in {"found", "created"}
StartupOk == started /\ users_collection # PyNone

\* The Messages appended since request r was received, for its phone
\* number and chatId, with the given role.
NewMessages(r, role) ==
  {i \in (Len(snapshot[r].messages) + 1)..Len(messages) :
     /\ messages[i].phoneNumber = req[r].phoneNumber
     /\ messages[i].chatId = req[r].chatId
     /\ messages[i].role = role}

\* C1: every request that returns status="success" after a successful
\* start-up leaves exactly one new user Message (content = raw message,
\* content_en = normalized English text) and exactly one new assistant
\* Message (content = localized reply, content_en = the agent's English
\* reply) in the Message Log.
C1_TurnsLogged ==
  \A r \in Slots :
    (Finished(r) /\ StartupOk /\ IsSuccess(response[r])) =>
      /\ Cardinality(NewMessages(r, "user")) = 1
      /\ \A i \in NewMessages(r, "user") :
           /\ messages[i].content = req[r].message
           /\ messages[i].content_en = english_message[r]
      /\ Cardinality(NewMessages(r, "assistant")) = 1
      /\ \A i \in NewMessages(r, "assistant") :
           /\ messages[i].content = response[r].message
           /\ messages[i].content_en = Str(agent_response_en[r])

\* C2: when the user-store lookup or creation fails, the response delivered
\* is the generic error response {chatId, phoneNumber, message = generic
\* apology, timestamp, status = "error"}, with no language field.
C2_EnsureFailureIsGenericError ==
  \A r \in Slots :
    (Finished(r) /\ outcome[r].ensure = "failed") =>
      /\ DOMAIN response[r] = {"chatId", "phoneNumber", "message", "timestamp", "status"}
      /\ response[r].status = "error"
      /\ response[r].message = GenericApology
      /\ response[r].chatId = req[r].chatId
      /\ response[r].phoneNumber = req[r].phoneNumber

\* The agent call of request r was made and ended in a failure: a transport
\* error, a status outside 2xx, a body that is not JSON or no JSON object.
AgentFailed(r) ==
  /\ outcome[r].agent.kind # "none"
  /\ ~(/\ outcome[r].agent.kind = "response"
       /\ outcome[r].agent.status \in 200..299
       /\ outcome[r].agent.body \in {"answer", "no_field"})

\* The table of the agent client: the sentence for each failed outcome.
FixedSentence(o) ==
  CASE o.kind = "timeout" -> SorryTimeout
    [] o.kind = "connect" -> SorryOffline
    [] o.kind = "request_error" -> SorryConnecting
    [] o.kind = "unexpected" -> SorryWrong
    [] o.kind = "response" /\ o.status = 405 -> SorryUnavailable
    [] o.kind = "response" /\ o.status = 422 -> SorryFormat
    [] o.kind = "response" /\ o.status >= 500 -> SorryTechnical
    [] o.kind = "response" /\ o.status >= 400 -> SorryUnable
    [] o.kind = "response" /\ o.status \in 200..299 /\ o.body = "not_json" -> SorryInvalid
    [] OTHER -> SorryWrong

FixedSentences ==
  {SorryTimeout, SorryUnavailable, SorryFormat, SorryTechnical, SorryUnable,
   SorryOffline, SorryConnecting, SorryInvalid, SorryWrong}

\* C3: every request in which ensure-user succeeds and the agent call ends
\* in a failure returns status="success" with language = detected language
\* and, when the detected language is "en", message = the fixed sentence of
\* that failure; the failure never becomes status="error".
C3_AgentFailureIsSuccess ==
  \A r \in Slots :
    (Finished(r) /\ EnsureOk(r) /\ AgentFailed(r)) =>
      /\ IsSuccess(response[r])
      /\ response[r].language = detected_lang[r]
      /\ detected_lang[r] = "en" =>
           /\ response[r].message = agent_response_en[r]
           /\ outcome[r].agent.status \notin 300..399 =>
                response[r].message = FixedSentence(outcome[r].agent)

\* Request r has completed its inbound (outbound) translation call.
TranslatedIn(r) == outcome[r].trans_in # "none"
TranslatedOut(r) == outcome[r].trans_out # "none"
NotTranslated == TranslationFailures \cup TranslationMalformed

\* C4: translation is best-effort in both directions: after a call that
\* ends in a non-200 status, a timeout, a network error or a malformed 200
\* payload, the text used is the input text unchanged (the raw message
\* inbound, the English agent reply outbound), and the request still ends
\* with status="success"; when the back-translation fails the final message
\* is the English agent reply, with language = detected language.
C4_TranslationBestEffort ==
  \A r \in Slots :
    /\ (TranslatedIn(r) /\ outcome[r].trans_in \in NotTranslated) =>
         english_message[r] = req[r].message
    /\ (TranslatedOut(r) /\ outcome[r].trans_out \in NotTranslated) =>
         final_message[r] = Str(agent_response_en[r])
    /\ (Finished(r) /\ TranslatedIn(r)) => IsSuccess(response[r])
    /\ (Finished(r) /\ TranslatedOut(r) /\ outcome[r].trans_out \in NotTranslated) =>
         /\ IsSuccess(response[r])
         /\ response[r].message = Str(agent_response_en[r])
         /\ response[r].language = detected_lang[r]

\* A best-effort store operation of request r failed.
BestEffortFailed(r) ==
  \/ outcome[r].history = "raise"
  \/ outcome[r].save_user = "raise"
  \/ outcome[r].update = "raise"
  \/ outcome[r].save_assistant = "raise"

\* C5: if ensure-user succeeds, a request in which the history fetch, the
\* user-turn write, the assistant-turn write or the activity-count update
\* fails still returns status="success" carrying the agent's reply.
C5_BestEffortFailuresSwallowed ==
  \A r \in Slots :
    (Finished(r) /\ EnsureOk(r) /\ BestEffortFailed(r)) =>
      /\ IsSuccess(response[r])
      /\ response[r].message = final_message[r]
      /\ detected_lang[r] = "en" => response[r].message = Str(agent_response_en[r])

\* C6: for every outcome of the agent HTTP call the reply is the one of the
\* fixed table: a failed outcome, a non-2xx status included, yields one of
\* the nine fixed sentences (never a text with a status code), and a
\* success yields the response field or "No response from agent".
C6_AgentReplyFromTable ==
  \A r \in Slots :
    outcome[r].agent.kind # "none" =>
      IF AgentFailed(r)
      THEN /\ agent_response_en[r] \in FixedSentences
           /\ agent_response_en[r] = FixedSentence(outcome[r].agent)
      ELSE agent_response_en[r] =
             IF outcome[r].agent.body = "answer" THEN AgentAnswer ELSE NoResponse

\* C7: in every reachable state the user store holds at most one User
\* record per phone number.
C7_OneUserPerPhone ==
  \A p \in Phones :
    Cardinality({i \in 1..Len(users) : users[i].phoneNumber = p}) <= 1

\* The text fields of a response body.
TextFields(body) == DOMAIN body \ {"timestamp", "status_code"}

\* The body carries the text of an exception.
Leaks(body) ==
  \E f \in TextFields(body), e \in InternalTexts :
    body[f] \in {e, DatabaseErrorDetail(e)}

\* C8: no response delivered for a /whatsapp request contains internal
\* error text; on every failure path the body carries only the generic
\* apology.
C8_NoInternalText ==
  \A r \in Slots :
    Finished(r) =>
      /\ ~Leaks(response[r])
      /\ ~IsSuccess(response[r]) =>
           /\ "message" \in DOMAIN response[r]
           /\ response[r].message = GenericApology

\* The language the pipeline is to work in: the caller's when present and
\* not "en", otherwise the Language Detector's result on the raw message.
ExpectedLanguage(rq) ==
  IF rq.language \notin {"", "en"} THEN rq.language
  ELSE detect_language(CodePoints(rq.message))

\* C9: the detected language of a request is the caller-supplied language
\* when present and not "en" (whatever the script of the message) and the
\* detector's result otherwise; it is the language sent to the agent, the
\* one that decides whether to translate (each direction), and the language
\* of the success response.
C9_DetectedLanguage ==
  \A r \in Slots :
    pc[r] # "idle" =>
      /\ detected_lang[r] = ExpectedLanguage(req[r])
      /\ agent_payload[r] # NoPayload =>
           agent_payload[r].language = ExpectedLanguage(req[r])
      /\ "history" \in Range(trace[r]) =>
           ("translate_in" \in Range(trace[r]) <=> ExpectedLanguage(req[r]) # "en")
      /\ "append_assistant" \in Range(trace[r]) =>
           ("translate_out" \in Range(trace[r]) <=> ExpectedLanguage(req[r]) # "en")
      /\ (Finished(r) /\ IsSuccess(response[r])) =>
           response[r].language = ExpectedLanguage(req[r])

\* A request whose caller said "hi" for a Telugu-script message was
\* translated in both directions and answered with language "hi".
C9_Witness ==
  \E r \in Slots :
    /\ Finished(r) /\ IsSuccess(response[r])
    /\ req[r].language = "hi" /\ req[r].message = MsgTelugu
    /\ response[r].language = "hi"
    /\ agent_payload[r].language = "hi"
    /\ "translate_in" \in Range(trace[r]) /\ "translate_out" \in Range(trace[r])

\* C10: when ensure-user fails the request aborts with no further effect:
\* no translation call and no agent call is made, no Message is appended
\* and no user record is changed.
C10_EnsureFailureNoEffects ==
  \A r \in Slots :
    (Finished(r) /\ outcome[r].ensure = "failed") =>
      /\ trace[r] = <<"ensure">>
      /\ outcome[r].trans_in = "none" /\ outcome[r].trans_out = "none"
      /\ outcome[r].agent = NoAgentOutcome /\ agent_payload[r] = NoPayload
      /\ messages = snapshot[r].messages
      /\ Len(users) = Len(snapshot[r].users)
      /\ \A i \in 1..Len(users) :
           /\ users[i].phoneNumber = snapshot[r].users[i].phoneNumber
           /\ users[i].messageCount = snapshot[r].users[i].messageCount
           /\ users[i].lastMessage = snapshot[r].users[i].lastMessage

\* A request for a phone number whose record already counts a message
\* failed in ensure-user.
C10_Witness ==
  \E r \in Slots :
    /\ Finished(r) /\ outcome[r].ensure = "failed"
    /\ \E i \in 1..Len(users) :
         users[i].phoneNumber = req[r].phoneNumber /\ users[i].messageCount = 1

\* How many times request r invoked the step with the given label.
Count(r, label) == Cardinality({i \in 1..Len(trace[r]) : trace[r][i] = label})

\* How many times request r POSTed to the agent endpoint: send_to_agent
\* makes the call unless it raised before building the payload.
AgentCalls(r) == IF agent_payload[r] = NoPayload THEN 0 ELSE Count(r, "agent")

\* How many calls of a kind a request with the given language is to make.
OncePerDirection(lang) == IF lang # "en" THEN 1 ELSE 0

\* C11: no external call is retried: no request calls the agent endpoint or
\* either direction of the translation endpoint more than once, and every
\* request that passed ensure-user has, when it ends, called the agent
\* exactly once and the translation endpoint exactly once per direction
\* when its detected language is not "en" and not at all when it is "en".
C11_ExternalCallsOnce ==
  \A r \in Slots :
    /\ AgentCalls(r) <= 1
    /\ Count(r, "translate_in") <= 1 /\ Count(r, "translate_out") <= 1
    /\ (Finished(r) /\ EnsureOk(r)) =>
         /\ AgentCalls(r) = 1
         /\ Count(r, "translate_in") = OncePerDirection(detected_lang[r])
         /\ Count(r, "translate_out") = OncePerDirection(detected_lang[r])

\* The append of a turn of request r was invoked and did not fail.
Appended(r, role) ==
  IF role = "user"
  THEN "append_user" \in Range(trace[r]) /\ outcome[r].save_user # "raise"
  ELSE "append_assistant" \in Range(trace[r]) /\ outcome[r].save_assistant # "raise"

\* The content and the English text request r hands to the append of a turn.
TurnContent(r, role) == IF role = "user" THEN req[r].message ELSE final_message[r]
TurnEnglish(r, role) == IF role = "user" THEN english_message[r] ELSE Str(agent_response_en[r])

\* The translation of a turn of request r was not attempted, or failed.
Untranslated(r, role) ==
  \/ detected_lang[r] = "en"
  \/ role = "user" /\ outcome[r].trans_in \in NotTranslated
  \/ role = "assistant" /\ outcome[r].trans_out \in NotTranslated

\* C12: every Message in the Message Log has a content_en that is neither
\* null nor empty; an append stores a Message whose content_en is the
\* content when the English text given is null or absent (and the English
\* text otherwise); and the Message the pipeline writes for a turn whose
\* translation was not attempted or failed has content_en = content.
C12_ContentEnPopulated ==
  /\ \A i \in 1..Len(messages) : IsStr(messages[i].content_en) /\ messages[i].content_en # ""
  /\ \A r \in Slots, role \in {"user", "assistant"} :
       Appended(r, role) =>
         \E i \in NewMessages(r, role) :
           /\ messages[i].content = TurnContent(r, role)
           /\ messages[i].content_en =
                IF Falsy(TurnEnglish(r, role)) THEN TurnContent(r, role)
                ELSE TurnEnglish(r, role)
           /\ Untranslated(r, role) => messages[i].content_en = messages[i].content

\* The Messages stored for a phone number, and the k most recent of them:
\* those with fewer than k later Messages of that phone number.
StoredFor(p) == {i \in 1..Len(messages) : messages[i].phoneNumber = p}
MostRecent(p, k) ==
  {i \in StoredFor(p) :
     Cardinality({j \in StoredFor(p) : messages[j].timestamp > messages[i].timestamp}) < k}

\* A Message with its role label and its English content.
Rendered(m) ==
  (IF m.role = "user" THEN "User" ELSE "AgriGPT") \o ": " \o m.content_en \o "\n"

\* The Messages of a set, oldest first, each rendered.
RECURSIVE Chronological(_)
Chronological(S) ==
  IF S = {} THEN ""
  ELSE LET first == CHOOSE i \in S : \A j \in S : messages[i].timestamp <= messages[j].timestamp
       IN Rendered(messages[first]) \o Chronological(S \ {first})

HistoryHeader == "\n--- Recent Conversation History (for context) ---\n"
HistoryFooter == "--- End of History ---\n\n"

\* The history block of a set of Messages: empty for no Message.
HistoryBlock(S) ==
  IF S = {} THEN "" ELSE HistoryHeader \o Chronological(S) \o HistoryFooter

\* The retrieval of a call failed: the find raised, or there is no handle.
RetrievalFailed(c) == c.o \in {"raise", "skipped"}

\* C13: recentHistory(phone, limit) returns exactly the min(limit, n) most
\* recent of the n Messages stored for that phone number, oldest first,
\* each with its role label and its English content; it returns the empty
\* result when no Message is stored for the phone number or the retrieval
\* fails.
C13_RecentHistory ==
  call.op = "get_recent_history" =>
    /\ Cardinality(MostRecent(call.phoneNumber, call.limit)) =
         Min(call.limit, Cardinality(StoredFor(call.phoneNumber)))
    /\ call.result =
         IF RetrievalFailed(call) THEN ""
         ELSE HistoryBlock(MostRecent(call.phoneNumber, call.limit))

\* The history of a phone number with more Messages than the limit, of
\* both roles, was fetched.
C13_Witness ==
  /\ call.op = "get_recent_history" /\ ~RetrievalFailed(call)
  /\ call.limit = HistoryLimit
  /\ Cardinality(StoredFor(call.phoneNumber)) > call.limit
  /\ \E i, j \in MostRecent(call.phoneNumber, call.limit) :
       messages[i].role = "user" /\ messages[j].role = "assistant"
  /\ call.result # ""

\* This step completes the recordActivity call of request r.
RecordsActivity(r) == pc[r] = "update" /\ pc'[r] # "update"

\* C14: each call of recordActivity for an existing phone number that
\* updates the store adds exactly 1 to that user's messageCount, whatever
\* the other requests are doing, and nothing else changes a messageCount
\* (so N calls add exactly N); no step makes a lastMessage earlier than it
\* was; and the call never raises to its caller, which goes on to the next
\* step of the pipeline.
C14_RecordActivity ==
  [][/\ Len(users') >= Len(users)
     /\ \A i \in 1..Len(users) :
          /\ users'[i].lastMessage >= users[i].lastMessage
          /\ users'[i].messageCount =
               users[i].messageCount +
                 Cardinality({r \in Slots : /\ RecordsActivity(r)
                                            /\ outcome'[r].update = "ok"
                                            /\ FindUser(req[r].phoneNumber) = i})
     /\ \A r \in Slots :
          RecordsActivity(r) =>
            /\ pc'[r] = AfterUpdate(detected_lang[r])
            /\ response'[r] = response[r]]_vars

\* The records of the user store for a phone number, now and when request
\* r was received.
RecordsFor(p) == {i \in 1..Len(users) : users[i].phoneNumber = p}
RecordsBefore(r) ==
  {i \in 1..Len(snapshot[r].users) : snapshot[r].users[i].phoneNumber = req[r].phoneNumber}

UserFields == {"phoneNumber", "createdAt", "messageCount", "lastMessage"}

\* C15: ensure is idempotent for sequential calls: the call for an unseen
\* phone number inserts exactly one record and returns a User with
\* messageCount = 0 and lastMessage = null; a later call for that phone
\* number inserts nothing and returns that same record; neither result
\* carries the storage identifier.
C15_EnsureIdempotent ==
  \A r \in Slots :
    EnsureOk(r) =>
      /\ DOMAIN user_data[r] = UserFields
      /\ user_data[r].phoneNumber = req[r].phoneNumber
      /\ Cardinality(RecordsFor(req[r].phoneNumber)) = 1
      /\ outcome[r].ensure = "created" <=> RecordsBefore(r) = {}
      /\ outcome[r].ensure = "created" =>
           /\ Len(users) = Len(snapshot[r].users) + 1
           /\ user_data[r].messageCount = 0
           /\ user_data[r].lastMessage = NoTime
           /\ \A i \in RecordsFor(req[r].phoneNumber) :
                user_data[r].createdAt = isoformat(users[i].createdAt)
      /\ outcome[r].ensure = "found" =>
           /\ Len(users) = Len(snapshot[r].users)
           /\ \A i \in RecordsBefore(r) :
                /\ user_data[r].createdAt = isoformat(snapshot[r].users[i].createdAt)
                /\ user_data[r].messageCount = snapshot[r].users[i].messageCount
                /\ user_data[r].lastMessage = snapshot[r].users[i].lastMessage

\* The second request of a phone number found the record the first one
\* created, by now with a counted message.
C15_Witness ==
  \E r \in Slots :
    /\ outcome[r].ensure = "found"
    /\ user_data[r].messageCount = 1
    /\ Len(users) = 1

\* How many characters of a text lie in the Telugu block U+0C00..U+0C7F,
\* and in the Devanagari block U+0900..U+097F.
TeluguCount(text) == Cardinality({i \in 1..Len(text) : text[i] \in 3072..3199})
DevanagariCount(text) == Cardinality({i \in 1..Len(text) : text[i] \in 2304..2431})

\* C16: detect(text) returns "te" if the text has at least one Telugu
\* character and at least as many Telugu as Devanagari characters,
\* otherwise "hi" if it has at least one Devanagari character, otherwise
\* "en": a tie goes to Telugu, and the empty text gives "en".
C16_Detect ==
  call.op = "detect_language" =>
    call.result =
      IF TeluguCount(call.text) > 0 /\ TeluguCount(call.text) >= DevanagariCount(call.text)
      THEN "te"
      ELSE IF DevanagariCount(call.text) > 0 THEN "hi"
      ELSE "en"

\* A text with as many Telugu as Devanagari characters was detected as "te".
C16_Witness ==
  /\ call.op = "detect_language"
  /\ TeluguCount(call.text) = 1 /\ DevanagariCount(call.text) = 1
  /\ call.result = "te"

\* The steps of a request with the given detected language, in order.
StepsOf(lang) ==
  <<"ensure">> \o (IF lang # "en" THEN <<"translate_in">> ELSE <<>>)
  \o <<"history", "append_user", "agent", "record_activity">>
  \o (IF lang # "en" THEN <<"translate_out">> ELSE <<>>)
  \o <<"append_assistant", "respond">>

IsPrefix(s, t) == Len(s) <= Len(t) /\ s = SubSeq(t, 1, Len(s))

\* C17: the steps of a request are invoked in the fixed order ensure-user,
\* inbound translation (if not "en"), history fetch, user-turn append,
\* agent call, recordActivity, outbound translation (if not "en"),
\* assistant-turn append, respond: none is skipped or revisited (so the
\* history is read before the request's own user turn is appended, and
\* that append is invoked before the agent is called), and a request that
\* returns status="success" has gone through all of them.
C17_StepOrder ==
  \A r \in Slots :
    pc[r] # "idle" =>
      /\ IsPrefix(trace[r], StepsOf(detected_lang[r]))
      /\ (Finished(r) /\ IsSuccess(response[r])) => trace[r] = StepsOf(detected_lang[r])

\* A request in Hindi went through all nine steps.
C17_Witness ==
  \E r \in Slots :
    /\ Finished(r) /\ IsSuccess(response[r])
    /\ detected_lang[r] = "hi"
    /\ Len(trace[r]) = 9

\* C18: after a successful start-up both collection handles, users and
\* messages, are bound (not null) and stay bound, and no Message Log
\* operation takes its "handle not initialized" path while the User Store
\* is usable.
C18_HandlesInitialized ==
  StartupOk =>
    /\ users_collection # PyNone
    /\ messages_collection # PyNone
    /\ \A r \in Slots :
         /\ outcome[r].history # "skipped"
         /\ outcome[r].save_user # "skipped"
         /\ outcome[r].save_assistant # "skipped"

\* The messageCount of the phone number of request r when the request was
\* received (0 for an unseen phone number), and now.
CountBefore(r) ==
  IF RecordsBefore(r) = {} THEN 0
  ELSE snapshot[r].users[CHOOSE i \in RecordsBefore(r) : TRUE].messageCount
CountNow(r) == users[FindUser(req[r].phoneNumber)].messageCount

\* C19: messageCount never decreases and a request changes it by at most
\* 1: by exactly 1 once its record-activity update has been applied, which
\* every request that returns status="success" has invoked, and not at all
\* in a request that has not reached record-activity or whose update
\* failed; the counts of other phone numbers are left alone.
C19_MessageCount ==
  \A r \in Slots :
    /\ \A i \in 1..Len(snapshot[r].users) :
         /\ i <= Len(users)
         /\ users[i].messageCount >= snapshot[r].users[i].messageCount
         /\ users[i].phoneNumber # req[r].phoneNumber =>
              users[i].messageCount = snapshot[r].users[i].messageCount
    /\ EnsureOk(r) =>
         CountNow(r) = CountBefore(r) + (IF outcome[r].update = "ok" THEN 1 ELSE 0)
    /\ (Finished(r) /\ IsSuccess(response[r])) => outcome[r].update \in {"ok", "raise"}
    /\ "record_activity" \notin Range(trace[r]) => outcome[r].update = "none"

\* The second successful request of a phone number has brought its
\* messageCount from 1 to 2.
C19_Witness ==
  \E r \in Slots :
    /\ Finished(r) /\ IsSuccess(response[r])
    /\ CountBefore(r) = 1 /\ CountNow(r) = 2

\* The history the prompt of a call is to be built from.
HistoryOf(c) ==
  IF RetrievalFailed(c) THEN ""
  ELSE HistoryBlock(MostRecent(c.phoneNumber, HistoryLimit))

QuestionLabel == "Farmer's current question: "

\* C20: the prompt for the agent is the English message verbatim when the
\* fetched history is empty, and otherwise the history block (the recent
\* Messages oldest first, each with its role label and its English
\* content) followed by the labelled English message; built from
\* content_en only, it carries no native-language content of a Message
\* that has an English version.
C20_Prompt ==
  call.op = "contextual_query" =>
    /\ call.history_context = HistoryOf(call)
    /\ call.result =
         IF HistoryOf(call) = "" THEN call.english_message
         ELSE HistoryOf(call) \o QuestionLabel \o call.english_message

\* A prompt was built over a history that holds a user Message whose
\* English version differs from its native content.
C20_Witness ==
  /\ call.op = "contextual_query"
  /\ call.history_context # ""
  /\ call.result # call.english_message
  /\ \E i \in MostRecent(call.phoneNumber, HistoryLimit) :
       messages[i].role = "user" /\ messages[i].content_en # messages[i].content

\* The Messages of a phone number, in the order they were stored, and the
\* last k of them.
OwnMessages(p) == SelectSeq(messages, LAMBDA m : m.phoneNumber = p)
LastOf(s, k) == SubSeq(s, Len(s) - Min(k, Len(s)) + 1, Len(s))

RECURSIVE RenderedAll(_)
RenderedAll(s) == IF s = <<>> THEN "" ELSE Rendered(Head(s)) \o RenderedAll(Tail(s))

\* The history block of a phone number as its own Messages alone give it.
OwnBlock(p, k) ==
  IF OwnMessages(p) = <<>> THEN ""
  ELSE HistoryHeader \o RenderedAll(LastOf(OwnMessages(p), k)) \o HistoryFooter

\* C21: history is isolated per phone number and not per chat session:
\* the history block fetched for phone number P, and the prompt built from
\* it, are what the Messages of P alone give, those of all chat sessions
\* of P included, whatever Messages of other phone numbers are stored.
C21_HistoryIsolated ==
  /\ (call.op = "get_recent_history" /\ ~RetrievalFailed(call)) =>
       call.result = OwnBlock(call.phoneNumber, call.limit)
  /\ (call.op = "contextual_query" /\ ~RetrievalFailed(call)) =>
       /\ call.history_context = OwnBlock(call.phoneNumber, HistoryLimit)
       /\ call.result =
            IF OwnMessages(call.phoneNumber) = <<>> THEN call.english_message
            ELSE OwnBlock(call.phoneNumber, HistoryLimit) \o QuestionLabel
                 \o call.english_message

\* A prompt was built for a phone number with Messages in two chat
\* sessions while a Message of another phone number was stored.
C21_Witness ==
  /\ call.op = "contextual_query" /\ ~RetrievalFailed(call)
  /\ \E i, j \in StoredFor(call.phoneNumber) : messages[i].chatId # messages[j].chatId
  /\ \E i \in 1..Len(messages) : messages[i].phoneNumber # call.phoneNumber
  /\ call.result # call.english_message

====
